---- MODULE Spec2Model ----
(***************************************************************************)
(* Local test-node lifecycle of mcp-anvil-tools: the AnvilManager          *)
(* supervisor and its PortAllocator (src/src/anvil/manager.ts) together    *)
(* with the anvil_instances table of the StateManager                      *)
(* (src/unnamed/part_001), and the snapshot registry and impersonation     *)
(* tracker of the execution tools (src/src/tools/execution.ts).            *)
(*                                                                         *)
(* Node.js runs one callback at a time; an `await` of a promise that is    *)
(* already settled only yields to other microtasks.  Each action below is  *)
(* one run-to-completion segment of a handler: from a call or an I/O event *)
(* up to the next await of real I/O (a bind probe, a fetch, a timer).      *)
(***************************************************************************)
EXTENDS Integers, Sequences, FiniteSets, TLC

\* ---------------------------------------------------------------- bounds
NumPorts == 2      \* size of the configured range [anvilPortStart, anvilPortEnd]
MaxStarts == 2     \* start() calls made in one run of the supervisor
MaxOld == 2        \* durable records left by earlier runs of the supervisor
NumNodes == 2      \* RPC endpoints the execution tools are pointed at
MaxTokens == 2     \* snapshot tokens one node issues
MaxCalls == 3      \* tool calls made in one run
MaxChunks == 2     \* chunks of process output whose log lines are kept
KeyDigits == 64    \* the hex digits of /0x[a-fA-F0-9]{64}/g

Ports == 1..NumPorts
\* options.port: 0 stands for "no override" (undefined and 0 are both falsy
\* in `options.port || ...`); NumPorts + 1 is a port outside the range.
PortOptions == 0..(NumPorts + 1)
Ids == 1..MaxStarts            \* randomUUID(): a fresh id per start call
OldIds == {0 - k : k \in 1..MaxOld}

VARIABLES
    phase,       \* "boot" before initialize() has run, "serving", then "down";
                 \* "crashed" after an uncaught exception
    available,   \* PortAllocator.available: a Set, kept in insertion order
    allocated,   \* PortAllocator.allocated
    instances,   \* AnvilManager.instances: id -> [port, status, process]
    db,          \* anvil_instances table: id -> [port, status, stoppedAt]
    pc,          \* position of each start() call
    port,        \* the `port` local of each call (loop variable, then result)
    it,          \* entries of `available` each allocate()'s iterator has passed
    proc,        \* the spawned OS process of each instance
    stdoutq,     \* a "Listening on" chunk written by the process, not yet read
    testers,     \* ports bound by a probe's net.Server
    ext,         \* ports bound by processes outside the supervisor
    budget,      \* start() calls the environment still makes
    \* history (not program state)
    db0,         \* the durable records as found at boot
    signalled,   \* instances whose process was sent SIGTERM
    pidSignals,  \* durable-record ids whose PID was sent a terminating signal
    stopCalled,  \* instances stop() was called for
    lateStops,   \* instances stopped after their start() had timed out
    probeOk,     \* instances whose liveness query was answered with a result
    outstanding, \* ports returned by allocate() and not released since
    dup,         \* ports allocate() returned while they were outstanding
    released,    \* ports release() was called for
    reused,      \* calls whose allocate() returned a port released before
    exh,         \* per call: "yes" while no available port has been free
                 \* since its allocate() began, then "no"; "na" without one
    failed,      \* per call: the ports whose probe answered false so far
    notFound,    \* ids a stop() call threw "Anvil instance not found" for
    \* execution tools
    snapshots,             \* the Map `snapshots`: key -> SnapshotMetadata
    consumedSnapshots,     \* the Set `consumedSnapshots`
    impersonatedAddresses, \* the Set `impersonatedAddresses`
    nodeSnaps,   \* per endpoint: the snapshot tokens its node has issued
    nodeImp,     \* per endpoint: the addresses its node impersonates
    toolBudget,  \* tool calls the environment still makes
    \* history of the tool calls (not program state)
    last,        \* the most recent tool call and how it ended
    captured,    \* the records of the named captures that succeeded
    answered,    \* tokens a revert got an answer for from the node
    byTool,      \* per endpoint: addresses the impersonate tool started
                 \* and has not stopped
    startStop,   \* the latest start by the impersonate tool, the tracker
                 \* before it, and the stop that came right after it
    \* process output
    sink,        \* the console lines written for chunks of process output
    outBudget    \* chunks the processes still write whose lines are kept

alloc == <<available, allocated>>
calls == <<pc, port, it>>
hist == <<db0, signalled, pidSignals, stopCalled, lateStops, probeOk,
          outstanding, dup, released, reused>>
tools == <<snapshots, consumedSnapshots, impersonatedAddresses, nodeSnaps,
           nodeImp, toolBudget, last, captured, answered, byTool, startStop>>
output == <<sink, outBudget>>
sup == <<phase, alloc, instances, db, calls, proc, stdoutq, testers, ext,
         budget, hist, exh, failed, notFound, output>>
vars == <<sup, tools>>

\* ------------------------------------------------------------ helpers
Range(s) == {s[k] : k \in 1..Len(s)}

Remove(s, k) == [j \in 1..(Len(s) - 1) |-> IF j < k THEN s[j] ELSE s[j + 1]]

IndexOf(s, x) == CHOOSE k \in 1..Len(s) : s[k] = x

\* a port some socket is bound to: a probe's tester, a listening node, or a
\* process outside the supervisor
Bound(p) ==
    \/ p \in testers
    \/ p \in ext
    \/ \E i \in DOMAIN instances : proc[i] = "listening" /\ instances[i].port = p

\* no port of `available` would pass a bind probe
Exhausted == \A p \in Range(available) : Bound(p)

\* history of exhaustion: call `starting` (0 for none) begins its allocate()
\* in this step; a call still scanning loses "yes" once a port is free
TrackExh(starting) ==
    exh' = [i \in Ids |->
              IF i = starting
              THEN IF Exhausted THEN "yes" ELSE "no"
              ELSE IF exh[i] = "yes" /\ pc'[i] = "probeError" /\ ~Exhausted'
                   THEN "no"
                   ELSE exh[i]]

\* ------------------------------------------------- JavaScript Set
\* Set.prototype.add: a new element goes to the end of the insertion order
SetAdd(s, x) == IF x \in Range(s) THEN s ELSE Append(s, x)

\* Set.prototype.delete
SetDelete(s, x) == IF x \in Range(s) THEN Remove(s, IndexOf(s, x)) ELSE s

\* A live Set iterator that has passed n entries, after x is deleted: the
\* entries behind it shift down by one.
IterAfterDelete(s, x, n) ==
    IF x \in Range(s) /\ IndexOf(s, x) <= n THEN n - 1 ELSE n

\* ------------------------------------------------- durable store
\* anvil_instances.port is declared UNIQUE: an INSERT of a port some row
\* already has raises SQLITE_CONSTRAINT
UniqueViolation(d, p) == \E r \in DOMAIN d : d[r].port = p

SaveAnvilInstance(d, id, p) ==
    d @@ (id :> [port |-> p, status |-> "starting", stoppedAt |-> "null"])

\* UPDATE ... WHERE id = ?: no row, no change, no error
UpdateAnvilStatus(d, id, st, ts) ==
    IF id \in DOMAIN d
    THEN [d EXCEPT ![id] = [@ EXCEPT !.status = st, !.stoppedAt = ts]]
    ELSE d

ListAnvilInstances(d, st) == {r \in DOMAIN d : d[r].status = st}

\* ------------------------------------------------- PortAllocator
\* constructor: ports start..end are added in ascending order
InitialAvailable == [k \in 1..NumPorts |-> k]

\* release(port)
ReleaseAllocated(al, p) == al \ {p}

\* (mutant of ReleaseAvailable: the port is not put back)
ReleaseAvailableDrops(av, p) == av

ReleaseAvailable(av, p) == SetAdd(av, p)

\* (mutant of NextCandidate: the probe's answer is ignored)
NextCandidateIgnoresProbe(i) ==
    IF it[i] >= Len(available)
    THEN /\ pc' = [pc EXCEPT ![i] = "throwNoPorts"]
         /\ it' = [it EXCEPT ![i] = 0]
         /\ port' = [port EXCEPT ![i] = 0]
         /\ UNCHANGED testers
    ELSE /\ it' = [it EXCEPT ![i] = it[i] + 1]
         /\ port' = [port EXCEPT ![i] = available[it[i] + 1]]
         /\ pc' = [pc EXCEPT ![i] = "probeListening"]
         /\ testers' = testers \cup {available[it[i] + 1]}

\* allocate(), first half of one loop round: take the next entry of
\* `available` and start the bind probe on it (listen() binds at once, the
\* 'listening' or 'error' event comes later); with no entry left the loop
\* ends, allocate() returns null and start() throws "No available ports".
NextCandidate(i) ==
    IF it[i] >= Len(available)
    THEN /\ pc' = [pc EXCEPT ![i] = "throwNoPorts"]
         /\ it' = [it EXCEPT ![i] = 0]
         /\ port' = [port EXCEPT ![i] = 0]
         /\ UNCHANGED testers
    ELSE LET p == available[it[i] + 1] IN
         /\ it' = [it EXCEPT ![i] = it[i] + 1]
         /\ port' = [port EXCEPT ![i] = p]
         /\ IF Bound(p)
            THEN /\ pc' = [pc EXCEPT ![i] = "probeError"]
                 /\ UNCHANGED testers
            ELSE /\ pc' = [pc EXCEPT ![i] = "probeListening"]
                 /\ testers' = testers \cup {p}

\* start(), from spawn() to the first fetch of waitForStartup: the instance
\* enters the map as "starting" with its process handle, the handlers are
\* attached, and the record is inserted; the INSERT throws on a port some
\* row already has, and then start() rejects with the instance left in the
\* map.  When the binary cannot be executed spawn() still returns a handle
\* (with no pid) and emits 'error' on it from process.nextTick: start()
\* attaches 'exit' and 'data' listeners only, so the event is thrown as an
\* uncaught exception once this segment ends.
SpawnAndSave(i, p) ==
    /\ instances' = instances @@
           (i :> [port |-> p, status |-> "starting", process |-> TRUE])
    /\ \E ok \in BOOLEAN :
          /\ proc' = [proc EXCEPT ![i] = IF ok THEN "spawned" ELSE "spawnFailed"]
          /\ phase' = IF ok THEN phase ELSE "crashed"
    /\ IF UniqueViolation(db, p)
       THEN /\ db' = db
            /\ pc' = [pc EXCEPT ![i] = "throwDb"]
       ELSE /\ db' = SaveAnvilInstance(db, i, p)
            /\ pc' = [pc EXCEPT ![i] = "polling"]

\* a caller invokes start(options)
Start(i, opt) ==
    /\ phase = "serving"
    /\ budget > 0
    /\ pc[i] = "idle"
    /\ \A j \in Ids : j < i => pc[j] # "idle"
    /\ budget' = budget - 1
    /\ IF opt # 0
       THEN /\ port' = [port EXCEPT ![i] = opt]
            /\ SpawnAndSave(i, opt)
            /\ UNCHANGED <<it, testers>>
       ELSE /\ NextCandidate(i)
            /\ UNCHANGED <<phase, instances, proc, db>>
    /\ UNCHANGED <<alloc, stdoutq, ext, hist, failed>>
    /\ UNCHANGED <<notFound, tools, output>>
    /\ TrackExh(IF opt = 0 THEN i ELSE 0)

\* isPortFree: the tester's 'listening' event: close the tester, resolve(true)
ProbeListening(i) ==
    /\ phase = "serving"
    /\ pc[i] = "probeListening"
    /\ testers' = testers \ {port[i]}
    /\ pc' = [pc EXCEPT ![i] = "probeOk"]
    /\ UNCHANGED <<phase, alloc, instances, db, port, it, proc, stdoutq, ext,
                   budget, hist, failed>>
    /\ UNCHANGED <<notFound, tools, output>>
    /\ TrackExh(0)

\* isPortFree: the tester's 'error' event: resolve(false); allocate() goes on
\* to the next entry
ProbeError(i) ==
    /\ phase = "serving"
    /\ pc[i] = "probeError"
    /\ NextCandidate(i)
    /\ failed' = [failed EXCEPT ![i] =
                    IF pc'[i] = "throwNoPorts" THEN {} ELSE @ \cup {port[i]}]
    /\ UNCHANGED <<phase, alloc, instances, db, proc, stdoutq, ext, budget,
                   hist>>
    /\ UNCHANGED <<notFound, tools, output>>
    /\ TrackExh(0)

\* allocate() resumes after a probe that answered true: the port moves from
\* available to allocated and is returned; start() goes on to spawn
AllocateReturn(i) ==
    /\ phase = "serving"
    /\ pc[i] = "probeOk"
    /\ LET p == port[i] IN
       /\ available' = SetDelete(available, p)
       /\ allocated' = allocated \cup {p}
       /\ it' = [j \in Ids |->
                   IF j = i THEN 0 ELSE IterAfterDelete(available, p, it[j])]
       /\ dup' = IF p \in outstanding THEN dup \cup {p} ELSE dup
       /\ outstanding' = outstanding \cup {p}
       /\ reused' = IF p \in released THEN reused \cup {i} ELSE reused
       /\ SpawnAndSave(i, p)
    /\ failed' = [failed EXCEPT ![i] = {}]
    /\ UNCHANGED <<port, stdoutq, testers, ext, budget, db0, signalled,
                   pidSignals, stopCalled, lateStops, probeOk, released>>
    /\ UNCHANGED <<notFound, tools, output>>
    /\ TrackExh(0)

\* ------------------------------------------------- the node process
\* the node binds its port and prints "Listening on ..." to stdout
ProcListen(i) ==
    /\ phase = "serving"
    /\ proc[i] = "spawned"
    /\ ~Bound(instances[i].port)
    /\ proc' = [proc EXCEPT ![i] = "listening"]
    /\ stdoutq' = [stdoutq EXCEPT ![i] = TRUE]
    /\ UNCHANGED <<phase, alloc, instances, db, calls, testers, ext, budget,
                   hist, failed>>
    /\ UNCHANGED <<notFound, tools, output>>
    /\ TrackExh(0)

\* the process ends: a crash, a kill from outside, a failure to bind its
\* port, or the SIGTERM of stop(); the 'exit' event is then pending
ProcExit(i) ==
    /\ phase = "serving"
    /\ proc[i] \in {"spawned", "listening"}
    /\ proc' = [proc EXCEPT ![i] = "exited"]
    /\ UNCHANGED <<phase, alloc, instances, db, calls, stdoutq, testers, ext,
                   budget, hist, failed>>
    /\ UNCHANGED <<notFound, tools, output>>
    /\ TrackExh(0)

\* ------------------------------------------------- handlers of start()
\* process.stdout 'data' with a chunk that includes "Listening on"; the
\* stream may still deliver it after the 'exit' event
StdoutData(i) ==
    /\ phase = "serving"
    /\ stdoutq[i]
    /\ stdoutq' = [stdoutq EXCEPT ![i] = FALSE]
    /\ instances' = [instances EXCEPT ![i].status = "running"]
    /\ UNCHANGED <<phase, alloc, db, calls, proc, testers, ext, budget, hist,
                   failed>>
    /\ UNCHANGED <<notFound, tools, output>>
    /\ TrackExh(0)

\* process 'exit'
ExitHandler(i) ==
    /\ phase = "serving"
    /\ proc[i] = "exited"
    /\ proc' = [proc EXCEPT ![i] = "reaped"]
    /\ instances' = [instances EXCEPT ![i].status = "stopped"]
    /\ allocated' = ReleaseAllocated(allocated, instances[i].port)
    /\ available' = ReleaseAvailable(available, instances[i].port)
    /\ db' = UpdateAnvilStatus(db, i, "stopped", "ts")
    /\ outstanding' = outstanding \ {instances[i].port}
    /\ released' = released \cup {instances[i].port}
    /\ UNCHANGED <<phase, calls, stdoutq, testers, ext, budget, db0,
                   signalled, pidSignals, stopCalled, lateStops, probeOk, dup,
                   reused, failed>>
    /\ UNCHANGED <<notFound, tools, output>>
    /\ TrackExh(0)

\* ------------------------------------------------- waitForStartup
\* a node answers eth_blockNumber on port p: an instance's node that is
\* listening there, or a node outside the supervisor
Answers(p) ==
    \/ p \in ext
    \/ \E j \in DOMAIN instances : proc[j] = "listening" /\ instances[j].port = p

\* (mutant of PollSuccess: waitForStartup returns without the assignment)
PollSuccessKeepsStatus(i) ==
    /\ phase = "serving"
    /\ pc[i] = "polling"
    /\ Answers(port[i])
    /\ pc' = [pc EXCEPT ![i] = "returned"]
    /\ probeOk' = probeOk \cup {i}
    /\ UNCHANGED <<phase, alloc, instances, db, port, it, proc, stdoutq,
                   testers, ext, budget, db0, signalled, pidSignals,
                   stopCalled, lateStops, outstanding, dup, released, reused,
                   failed>>
    /\ UNCHANGED <<notFound, tools, output>>
    /\ TrackExh(0)

\* a fetch is answered ok with a result
PollSuccess(i) ==
    /\ phase = "serving"
    /\ pc[i] = "polling"
    /\ Answers(port[i])
    /\ instances' = [instances EXCEPT ![i].status = "running"]
    /\ pc' = [pc EXCEPT ![i] = "returned"]
    /\ probeOk' = probeOk \cup {i}
    /\ UNCHANGED <<phase, alloc, db, port, it, proc, stdoutq, testers, ext,
                   budget, db0, signalled, pidSignals, stopCalled, lateStops,
                   outstanding, dup, released, reused, failed>>
    /\ UNCHANGED <<notFound, tools, output>>
    /\ TrackExh(0)

\* (mutant of PollTimeout: the process is killed on timeout)
PollTimeoutKills(i) ==
    /\ phase = "serving"
    /\ pc[i] = "polling"
    /\ pc' = [pc EXCEPT ![i] = "throwTimeout"]
    /\ signalled' = signalled \cup {i}
    /\ UNCHANGED <<phase, alloc, instances, db, port, it, proc, stdoutq,
                   testers, ext, budget, db0, pidSignals, stopCalled,
                   lateStops, probeOk, outstanding, dup, released, reused,
                   failed>>
    /\ UNCHANGED <<notFound, tools, output>>
    /\ TrackExh(0)

\* the loop condition fails after `timeout` ms of fetches that threw or
\* carried no result: waitForStartup throws, and so does start()
PollTimeout(i) ==
    /\ phase = "serving"
    /\ pc[i] = "polling"
    /\ pc' = [pc EXCEPT ![i] = "throwTimeout"]
    /\ UNCHANGED <<phase, alloc, instances, db, port, it, proc, stdoutq,
                   testers, ext, budget, hist, failed>>
    /\ UNCHANGED <<notFound, tools, output>>
    /\ TrackExh(0)

\* ------------------------------------------------- stop, stopAll
\* stop(id) on the entries S of the map: kill("SIGTERM") where there is a
\* process handle, status "stopped", and the record updated
StopSignals(m, S) == {j \in S : m[j].process}

StopInstances(m, S) ==
    [j \in DOMAIN m |-> IF j \in S THEN [m[j] EXCEPT !.status = "stopped"] ELSE m[j]]

StopRecords(d, S) ==
    [r \in DOMAIN d |->
        IF r \in S THEN UpdateAnvilStatus(d, r, "stopped", "ts")[r] ELSE d[r]]

\* the ids a caller passes to stop(): an id start() has put in the map, the
\* id of a record in the store, or a string that was never an id (0)
StopIds == DOMAIN instances \cup DOMAIN db \cup {0}

\* (mutant of Stop: an id the map does not have is stopped in the store)
StopWithoutLookup(i) ==
    /\ phase = "serving"
    /\ i \in StopIds
    /\ signalled' = signalled \cup StopSignals(instances, {i} \cap DOMAIN instances)
    /\ stopCalled' = stopCalled \cup {i}
    /\ lateStops' = lateStops \cup {j \in {i} \cap Ids : pc[j] = "throwTimeout"}
    /\ instances' = StopInstances(instances, {i})
    /\ db' = StopRecords(db, {i})
    /\ UNCHANGED <<phase, alloc, calls, proc, stdoutq, testers, ext, budget,
                   db0, pidSignals, probeOk, outstanding, dup, released,
                   reused, failed, notFound>>
    /\ UNCHANGED <<tools, output>>
    /\ TrackExh(0)

\* stop(id): an id the map does not have throws "Anvil instance not found"
\* before anything else is done
Stop(i) ==
    /\ phase = "serving"
    /\ i \in StopIds
    /\ IF i \notin DOMAIN instances
       THEN /\ notFound' = notFound \cup {i}
            /\ UNCHANGED <<signalled, stopCalled, lateStops, instances, db>>
       ELSE /\ signalled' = signalled \cup StopSignals(instances, {i})
            /\ stopCalled' = stopCalled \cup {i}
            /\ lateStops' = lateStops \cup {j \in {i} : pc[j] = "throwTimeout"}
            /\ instances' = StopInstances(instances, {i})
            /\ db' = StopRecords(db, {i})
            /\ UNCHANGED notFound
    /\ UNCHANGED <<phase, alloc, calls, proc, stdoutq, testers, ext, budget,
                   db0, pidSignals, probeOk, outstanding, dup, released,
                   reused, failed>>
    /\ UNCHANGED <<tools, output>>
    /\ TrackExh(0)

\* stopAll(): the entries it calls stop() for
StopAllTargets(m) == {j \in DOMAIN m : m[j].process /\ m[j].status # "orphaned"}

\* the SIGTERM/SIGINT handler of the server: stopAll(), close the store,
\* process.exit(0).  stop() awaits only the synchronous store, so no I/O
\* event runs between the rounds of stopAll()
Shutdown ==
    /\ phase = "serving"
    /\ LET S == StopAllTargets(instances) IN
       /\ signalled' = signalled \cup StopSignals(instances, S)
       /\ stopCalled' = stopCalled \cup S
       /\ lateStops' = lateStops \cup {j \in S : pc[j] = "throwTimeout"}
       /\ instances' = StopInstances(instances, S)
       /\ db' = StopRecords(db, S)
    /\ phase' = "down"
    /\ UNCHANGED <<alloc, calls, proc, stdoutq, testers, ext, budget, db0,
                   pidSignals, probeOk, outstanding, dup, released, reused,
                   failed>>
    /\ UNCHANGED <<notFound, tools, output>>
    /\ TrackExh(0)

\* ------------------------------------------------- initialize
\* (mutant of Reconcile: a record whose PID is alive is left running)
ReconcileSkipsAlive(d, r, isRunning) ==
    IF ~isRunning THEN UpdateAnvilStatus(d, r, "orphaned", "ts") ELSE d

\* one round of the loop of initialize(): both branches mark the record
\* orphaned, whatever process.kill(pid, 0) said
Reconcile(d, r, isRunning) ==
    IF ~isRunning
    THEN UpdateAnvilStatus(d, r, "orphaned", "ts")
    ELSE UpdateAnvilStatus(d, r, "orphaned", "ts")

Initialize ==
    /\ phase = "boot"
    /\ \E alive \in SUBSET ListAnvilInstances(db, "running") :
         db' = [r \in DOMAIN db |->
                  IF r \in ListAnvilInstances(db, "running")
                  THEN Reconcile(db, r, r \in alive)[r]
                  ELSE db[r]]
    /\ phase' = "serving"
    /\ UNCHANGED <<alloc, instances, calls, proc, stdoutq, testers, ext,
                   budget, hist, failed>>
    /\ UNCHANGED <<notFound, tools, output>>
    /\ TrackExh(0)

\* ------------------------------------------------- execution tools
\* The registries of the tools are module-level: one Map and two Sets for
\* the whole server, whatever endpoint `rpc` names.  A tool call reads and
\* writes them only in synchronous stretches around its requests to the
\* node; a call is taken as one step, with the node's answers as its inputs.
Rpcs == 1..NumNodes

\* the ids a node hands out for its snapshots: hex quantities, counted up
\* from "0x0" by each node on its own
Hex == <<"0x0", "0x1", "0x2", "0x3", "0x4", "0x5", "0x6", "0x7">>

NodeToken(k) == Hex[k + 1]

\* input.name of create_snapshot: any string; "" and undefined are both
\* falsy in `if (input.name)`
NameOptions == {"", "clean", "0x1"}

\* input.snapshotId of revert_snapshot: any string
KeyOptions == {"0x0", "0x1", "clean", "nope"}

\* Map.prototype.set
MapSet(m, k, v) == [x \in DOMAIN m \cup {k} |-> IF x = k THEN v ELSE m[x]]

\* the outcome of a tool call, kept as history
Call(tool, r, arg, outcome, warned, prim, token) ==
    [tool |-> tool, rpc |-> r, arg |-> arg, outcome |-> outcome,
     warned |-> warned, prim |-> prim, token |-> token]

NoCall == Call("none", 0, "", "", FALSE, FALSE, "")

\* the SnapshotMetadata of a capture: the token, the name, and the block
\* data read from the node at endpoint r
SnapshotRecord(t, n, r) == [snapshotId |-> t, name |-> n, block |-> r]

\* the tail of createSnapshot: the name check and the two set() calls
Register(m, n, t, rec) ==
    IF n # ""
    THEN IF n \in DOMAIN m
         THEN m
         ELSE MapSet(MapSet(m, n, rec), t, rec)
    ELSE MapSet(m, t, rec)

\* createSnapshot({name: n, rpc: r}); ans is what the node does: "rpcError"
\* when evm_snapshot and anvil_snapshot both fail, "blockError" when the
\* snapshot is taken and getBlock fails, "ok" otherwise
CreateSnapshot(r, n, ans) ==
    /\ toolBudget > 0
    /\ toolBudget' = toolBudget - 1
    /\ IF ans = "rpcError"
       THEN /\ last' = Call("createSnapshot", r, n, "rpcError", FALSE, FALSE, "")
            /\ UNCHANGED <<snapshots, nodeSnaps, captured>>
       ELSE /\ nodeSnaps[r] < MaxTokens
            /\ LET t == NodeToken(nodeSnaps[r])
                   rec == SnapshotRecord(t, n, r)
                   dupName == n # "" /\ n \in DOMAIN snapshots
                   out == IF ans = "blockError" THEN "blockError"
                          ELSE IF dupName THEN "duplicateName" ELSE "ok"
               IN
               /\ nodeSnaps' = [nodeSnaps EXCEPT ![r] = @ + 1]
               /\ snapshots' = IF ans = "blockError" THEN snapshots
                               ELSE Register(snapshots, n, t, rec)
               /\ captured' = IF out = "ok" /\ n # ""
                              THEN captured \cup {rec} ELSE captured
               /\ last' = Call("createSnapshot", r, n, out, FALSE, TRUE, t)
    /\ UNCHANGED <<consumedSnapshots, answered>>
    /\ UNCHANGED <<impersonatedAddresses, nodeImp, byTool, startStop>>
    /\ UNCHANGED sup

\* revertSnapshot: `stored ? stored.snapshotId : input.snapshotId`
Resolve(m, key) == IF key \in DOMAIN m THEN m[key].snapshotId ELSE key

\* (mutant of ConsumedWarning: the warning is never given)
ConsumedWarningNever(c, t) == FALSE

\* revertSnapshot: the console.warn "was already reverted"
ConsumedWarning(c, t) == t \in c

\* (mutant of SnapshotKnown: the id is not validated)
SnapshotKnownAlways(m, t) == TRUE

\* revertSnapshot: `snapshots.has(snapshotId)`, else "Snapshot not found"
SnapshotKnown(m, t) == t \in DOMAIN m

\* revertSnapshot({snapshotId: key, rpc: r}); ans is the node's answer to
\* evm_revert / anvil_revert: "true", "false", or "throws" when both throw
RevertSnapshot(r, key, ans) ==
    /\ toolBudget > 0
    /\ toolBudget' = toolBudget - 1
    /\ LET t == Resolve(snapshots, key)
           w == ConsumedWarning(consumedSnapshots, t)
       IN
       IF ~SnapshotKnown(snapshots, t)
       THEN /\ last' = Call("revertSnapshot", r, key, "notFound", w, FALSE, t)
            /\ UNCHANGED <<consumedSnapshots, answered>>
       ELSE IF ans = "throws"
       THEN /\ last' = Call("revertSnapshot", r, key, "rpcError", w, TRUE, t)
            /\ UNCHANGED <<consumedSnapshots, answered>>
       ELSE /\ last' = Call("revertSnapshot", r, key, ans, w, TRUE, t)
            /\ consumedSnapshots' = consumedSnapshots \cup {t}
            /\ answered' = answered \cup {t}
    /\ UNCHANGED <<snapshots, nodeSnaps, captured>>
    /\ UNCHANGED <<impersonatedAddresses, nodeImp, byTool, startStop>>
    /\ UNCHANGED sup

\* ------------------------------------------------- impersonation
\* input.address / input.from: hex strings in either letter case
AddressOptions == {"0xab", "0xAB", "0xcd"}

\* String.prototype.toLowerCase
ToLowerCase(a) == IF a = "0xAB" THEN "0xab" ELSE a

\* the 20-byte account a node reads from an address string
Account(a) == IF a \in {"0xab", "0xAB"} THEN "0xab" ELSE a

\* (mutant of TrackerDelete: the address is deleted as it was typed)
TrackerDeleteAsTyped(s, a) == s \ {a}

\* impersonatedAddresses.delete(input.address.toLowerCase())
TrackerDelete(s, a) == s \ {ToLowerCase(a)}

\* impersonatedAddresses.add(input.address.toLowerCase())
TrackerAdd(s, a) == s \cup {ToLowerCase(a)}

\* impersonatedAddresses.has(input.address.toLowerCase()): what the tracker
\* records about address a on endpoint r; the Set has no endpoint in its key
TrackerHas(s, r, a) == ToLowerCase(a) \in s

NoStartStop == [started |-> "", before |-> {}, stopped |-> ""]

\* impersonate({address: a, stopImpersonating: stopping, rpc: r}); ans is
\* what the node does: "notAnvil" when checkIsAnvil answers false,
\* "rpcError" when the (de-)impersonation request fails, "balanceError"
\* when getBalance fails after a start, "ok" otherwise
Impersonate(r, a, stopping, ans) ==
    /\ toolBudget > 0
    /\ toolBudget' = toolBudget - 1
    /\ stopping => ans # "balanceError"
    /\ LET tool == IF stopping THEN "stopImpersonating" ELSE "impersonate"
           w == ~stopping /\ TrackerHas(impersonatedAddresses, r, a)
       IN
       IF ans \in {"notAnvil", "rpcError"}
       THEN /\ last' = Call(tool, r, a, ans, ans = "rpcError" /\ w,
                            ans = "rpcError", "")
            /\ startStop' = NoStartStop
            /\ UNCHANGED <<impersonatedAddresses, nodeImp, byTool>>
       ELSE IF stopping
       THEN /\ last' = Call(tool, r, a, "ok", FALSE, TRUE, "")
            /\ nodeImp' = [nodeImp EXCEPT ![r] = @ \ {Account(a)}]
            /\ impersonatedAddresses' = TrackerDelete(impersonatedAddresses, a)
            /\ byTool' = [byTool EXCEPT ![r] = @ \ {Account(a)}]
            /\ startStop' =
                 IF /\ startStop.started # ""
                    /\ startStop.stopped = ""
                    /\ Account(startStop.started) = Account(a)
                 THEN [startStop EXCEPT !.stopped = a]
                 ELSE NoStartStop
       ELSE /\ last' = Call(tool, r, a, ans, w, TRUE, "")
            /\ nodeImp' = [nodeImp EXCEPT ![r] = @ \cup {Account(a)}]
            /\ impersonatedAddresses' = TrackerAdd(impersonatedAddresses, a)
            /\ byTool' = IF ans = "ok"
                         THEN [byTool EXCEPT ![r] = @ \cup {Account(a)}]
                         ELSE byTool
            /\ startStop' =
                 IF ans = "ok"
                 THEN [started |-> a, before |-> impersonatedAddresses,
                       stopped |-> ""]
                 ELSE NoStartStop
    /\ UNCHANGED <<snapshots, consumedSnapshots, nodeSnaps, captured, answered>>
    /\ UNCHANGED sup

\* sendTx({from: a, privateKey, rpc: r, ...}).  With a private key the
\* transaction is signed locally.  Without one the node is asked to
\* impersonate `from`, the transaction is sent, and after the receipt the
\* node is asked to stop impersonating it.  ans: "notAnvil" when checkIsAnvil
\* answers false, "rpcError" when the impersonation request fails, "txError"
\* when the sending or the receipt fails, "ok" otherwise.
SendTx(r, a, withKey, ans) ==
    /\ toolBudget > 0
    /\ toolBudget' = toolBudget - 1
    /\ withKey => ans \in {"txError", "ok"}
    /\ IF withKey \/ ans \in {"notAnvil", "rpcError"}
       THEN /\ last' = Call("sendTx", r, a, ans, FALSE, FALSE, "")
            /\ UNCHANGED nodeImp
       ELSE /\ last' = Call("sendTx", r, a, ans, FALSE, TRUE, "")
            /\ nodeImp' = [nodeImp EXCEPT ![r] =
                             IF ans = "ok" THEN @ \ {Account(a)}
                                           ELSE @ \cup {Account(a)}]
    /\ UNCHANGED <<impersonatedAddresses, byTool, startStop>>
    /\ UNCHANGED <<snapshots, consumedSnapshots, nodeSnaps, captured, answered>>
    /\ UNCHANGED sup

\* ------------------------------------------------- process output
\* A chunk is the string of one 'data' event, kept as a sequence of
\* characters.
HexChars == {"0", "1", "2", "3", "4", "5", "6", "7", "8", "9",
             "a", "b", "c", "d", "e", "f", "A", "B", "C", "D", "E", "F"}

\* /0x[a-fA-F0-9]{64}/ matches at position k
MatchAt(s, k) ==
    /\ k + KeyDigits + 1 <= Len(s)
    /\ s[k] = "0"
    /\ s[k + 1] = "x"
    /\ \A j \in 2..(KeyDigits + 1) : s[k + j] \in HexChars

Redacted == <<"0", "x", "[", "R", "E", "D", "A", "C", "T", "E", "D", "]">>

\* output.replace(/0x[a-fA-F0-9]{64}/g, "0x[REDACTED]"): the matches are
\* taken from the left, each search going on behind the match before it
RECURSIVE ReplaceFrom(_, _)
ReplaceFrom(s, k) ==
    IF k > Len(s) THEN <<>>
    ELSE IF MatchAt(s, k) THEN Redacted \o ReplaceFrom(s, k + KeyDigits + 2)
    ELSE <<s[k]>> \o ReplaceFrom(s, k + 1)

Redact(s) == ReplaceFrom(s, 1)

\* String.prototype.includes
Includes(s, t) ==
    \E k \in 1..(Len(s) - Len(t) + 1) : SubSeq(s, k, k + Len(t) - 1) = t

ListeningOn == <<"L", "i", "s", "t", "e", "n", "i", "n", "g", " ", "o", "n">>

\* the template `[Anvil ${id}] ${...}` of the console lines (the id, a
\* UUID, is left out)
LogLine(text) == <<"[", "A", "n", "v", "i", "l", "]", " ">> \o text

\* what a node writes: a private key as anvil prints it, mixed in case, a
\* hex string one digit short of a key, and the start-up line
KeyText ==
    <<"0", "x">> \o [j \in 1..KeyDigits |->
                       IF j % 3 = 0 THEN "F" ELSE IF j % 3 = 1 THEN "a" ELSE "7"]

Pieces == {KeyText, SubSeq(KeyText, 1, KeyDigits + 1), ListeningOn}

ChunkOptions == Pieces \cup {a \o b : a, b \in Pieces}

\* the processes whose stdout and stderr pipes start() listens on
Piped(i) == i \in DOMAIN instances /\ proc[i] \notin {"none", "spawnFailed"}

\* process.stdout 'data' with any chunk: the chunk is redacted and logged,
\* and a chunk that includes "Listening on" makes the instance running
StdoutChunk(i, c) ==
    /\ phase = "serving"
    /\ outBudget > 0
    /\ Piped(i)
    /\ outBudget' = outBudget - 1
    /\ sink' = sink \cup {LogLine(Redact(c))}
    /\ instances' = IF Includes(c, ListeningOn)
                    THEN [instances EXCEPT ![i].status = "running"]
                    ELSE instances
    /\ UNCHANGED <<phase, alloc, db, calls, proc, stdoutq, testers, ext,
                   budget, hist, failed>>
    /\ UNCHANGED <<notFound, tools>>
    /\ TrackExh(0)

\* process.stderr 'data': the chunk is logged as it is
StderrChunk(i, c) ==
    /\ phase = "serving"
    /\ outBudget > 0
    /\ Piped(i)
    /\ outBudget' = outBudget - 1
    /\ sink' = sink \cup {LogLine(c)}
    /\ UNCHANGED <<phase, alloc, instances, db, calls, proc, stdoutq,
                   testers, ext, budget, hist, failed>>
    /\ UNCHANGED <<notFound, tools>>
    /\ TrackExh(0)

\* ------------------------------------------------- initial states
\* the statuses a record of an earlier run is found in: any of the statuses
\* of AnvilInstanceInfo that a run can have persisted before it ended
OldStatuses == {"starting", "running", "orphaned", "stopped"}

OldRecord(k, st) ==
    [port |-> NumPorts + 2 - k, status |-> st,
     stoppedAt |-> IF st \in {"starting", "running"} THEN "null" ELSE "ts"]

\* the tables earlier runs can have left: n records, each with its own port
InitialDbs ==
    UNION {
      { [r \in {0 - k : k \in 1..n} |-> OldRecord(0 - r, f[0 - r])] :
          f \in [1..n -> OldStatuses] } :
      n \in 0..MaxOld }

InitWith(dbs, starts) ==
    /\ phase = "boot"
    /\ available = InitialAvailable
    /\ allocated = {}
    /\ instances = <<>>
    /\ db \in dbs
    /\ db0 = db
    /\ pc = [i \in Ids |-> "idle"]
    /\ port = [i \in Ids |-> 0]
    /\ it = [i \in Ids |-> 0]
    /\ proc = [i \in Ids |-> "none"]
    /\ stdoutq = [i \in Ids |-> FALSE]
    /\ testers = {}
    /\ ext \in SUBSET Ports
    /\ budget = starts
    /\ signalled = {}
    /\ pidSignals = {}
    /\ stopCalled = {}
    /\ lateStops = {}
    /\ probeOk = {}
    /\ outstanding = {}
    /\ dup = {}
    /\ released = {}
    /\ reused = {}
    /\ exh = [i \in Ids |-> "na"]
    /\ failed = [i \in Ids |-> {}]
    /\ notFound = {}

\* the registries of the execution tools when the module is loaded, and
\* nodes that have issued no snapshot and impersonate no account
InitTools(n) ==
    /\ snapshots = <<>>
    /\ consumedSnapshots = {}
    /\ impersonatedAddresses = {}
    /\ nodeSnaps = [r \in Rpcs |-> 0]
    /\ nodeImp = [r \in Rpcs |-> {}]
    /\ toolBudget = n
    /\ last = NoCall
    /\ captured = {}
    /\ answered = {}
    /\ byTool = [r \in Rpcs |-> {}]
    /\ startStop = NoStartStop

\* no line logged yet; the lines of the next n chunks are kept
InitSink(n) ==
    /\ sink = {}
    /\ outBudget = n

\* a first run of the supervisor: no durable record yet
Init == InitWith({<<>>}, MaxStarts) /\ InitTools(0) /\ InitSink(0)

\* a restart over the records of earlier runs, followed by one start() call
InitRestart == InitWith(InitialDbs, 1) /\ InitTools(0) /\ InitSink(0)

\* the snapshot tools and the impersonation tools, each called MaxCalls
\* times against nodes that run whatever the supervisor does
InitCalls == InitWith({<<>>}, 0) /\ InitTools(MaxCalls) /\ InitSink(0)

\* one start() with a port override, and the output of its process
InitOutput == InitWith({<<>>}, 1) /\ InitTools(0) /\ InitSink(MaxChunks)

Next ==
    \/ Initialize
    \/ \E i \in Ids, opt \in PortOptions : Start(i, opt)
    \/ \E i \in Ids : ProbeListening(i)
    \/ \E i \in Ids : ProbeError(i)
    \/ \E i \in Ids : AllocateReturn(i)
    \/ \E i \in Ids : ProcListen(i)
    \/ \E i \in Ids : ProcExit(i)
    \/ \E i \in Ids : StdoutData(i)
    \/ \E i \in Ids : ExitHandler(i)
    \/ \E i \in Ids : PollSuccess(i)
    \/ \E i \in Ids : PollTimeout(i)
    \/ \E i \in Ids \cup OldIds \cup {0} : Stop(i)
    \/ Shutdown

Spec == Init /\ [][Next]_vars

SpecRestart == InitRestart /\ [][Next]_vars

NextOutput ==
    \/ Initialize
    \/ \E i \in Ids, opt \in Ports : Start(i, opt)
    \/ \E i \in Ids, c \in ChunkOptions : StdoutChunk(i, c)
    \/ \E i \in Ids, c \in ChunkOptions : StderrChunk(i, c)

SpecOutput == InitOutput /\ [][NextOutput]_vars

SnapAnswers == {"ok", "rpcError", "blockError"}

RevertAnswers == {"true", "false", "throws"}

NextSnapshots ==
    \/ \E r \in Rpcs, n \in NameOptions, ans \in SnapAnswers :
          CreateSnapshot(r, n, ans)
    \/ \E r \in Rpcs, key \in KeyOptions, ans \in RevertAnswers :
          RevertSnapshot(r, key, ans)

SpecSnapshots == InitCalls /\ [][NextSnapshots]_vars

ImpAnswers == {"notAnvil", "rpcError", "balanceError", "ok"}

SendAnswers == {"notAnvil", "rpcError", "txError", "ok"}

NextImpersonation ==
    \/ \E r \in Rpcs, a \in AddressOptions, stopping \in BOOLEAN,
          ans \in ImpAnswers : Impersonate(r, a, stopping, ans)
    \/ \E r \in Rpcs, a \in AddressOptions, withKey \in BOOLEAN,
          ans \in SendAnswers : SendTx(r, a, withKey, ans)

SpecImpersonation == InitCalls /\ [][NextImpersonation]_vars

\* ================================================= claims
Active(i) == i \in DOMAIN instances /\ instances[i].status \in {"starting", "running"}

\* C1: no two allocate() calls that return a port return the same port
\* unless release() was called for that port between the two returns.
C1_NoDuplicateAllocation == dup = {}

\* C2: at most one in-memory instance with a non-terminal status (starting
\* or running) holds any given port.
C2_OnePortPerActiveInstance ==
    \A i, j \in DOMAIN instances :
        (i # j /\ Active(i) /\ Active(j)) => instances[i].port # instances[j].port

\* C3: when the process of an instance exits with no stop() call for that
\* instance, the exit handler leaves the instance stopped in memory, its
\* port in the allocator's available set, and its durable record stopped
\* with a termination timestamp.
C3_ExitWithoutStop ==
    [][\A i \in Ids :
         (proc[i] = "exited" /\ proc'[i] = "reaped" /\ i \notin stopCalled) =>
            /\ instances'[i].status = "stopped"
            /\ instances[i].port \in Range(available')
            /\ instances[i].port \notin allocated'
            /\ i \in DOMAIN db'
            /\ db'[i].status = "stopped"
            /\ db'[i].stoppedAt = "ts"]_vars

\* C4: an instance has status running only after its liveness query
\* (eth_blockNumber) was answered with a result; nothing else makes it
\* running.
C4_RunningOnlyAfterProbe ==
    \A i \in DOMAIN instances : instances[i].status = "running" => i \in probeOk

\* C5: when waitForStartup times out, start() raises and the instance is
\* left with status error, in memory and in the durable store.
C5_TimeoutLeavesError ==
    [][\A i \in Ids :
         (pc[i] = "polling" /\ pc'[i] = "throwTimeout") =>
            /\ instances'[i].status = "error"
            /\ i \in DOMAIN db'
            /\ db'[i].status = "error"]_vars

\* C6: when start() has failed with a startup timeout the supervisor has
\* sent the process no signal of its own, the instance is still in the map
\* with its process handle, and a stop(id) finds it and signals the process.
C6_TimedOutStillStoppable ==
    \A i \in Ids :
        pc[i] = "throwTimeout" =>
            /\ i \in DOMAIN instances
            /\ instances[i].process
            /\ (i \in signalled <=> i \in stopCalled)

C6_Witness ==
    \E i \in Ids : pc[i] = "throwTimeout" /\ i \in lateStops /\ i \in signalled

\* C7: initialize() turns every durable record found running into orphaned
\* with a termination timestamp, whether or not its PID is alive, leaves
\* every other record as it was, and sends no terminating signal.
RunningAtBoot == {r \in DOMAIN db0 : db0[r].status = "running"}

OrphanedAtBoot == {r \in DOMAIN db0 : db0[r].status = "orphaned"}

OrphanedNow == {r \in DOMAIN db : db[r].status = "orphaned"}

ReconciledAll ==
    /\ \A r \in DOMAIN db0 :
          /\ r \in DOMAIN db
          /\ IF r \in RunningAtBoot
             THEN db[r] = [db0[r] EXCEPT !.status = "orphaned", !.stoppedAt = "ts"]
             ELSE db[r] = db0[r]
    /\ pidSignals = {}

C8_StopAllStopsEverything ==
    phase = "down" =>
        \A i \in DOMAIN instances :
            IF instances[i].process /\ instances[i].status # "orphaned"
            THEN /\ i \in signalled
                 /\ instances[i].status = "stopped"
                 /\ i \in DOMAIN db
                 /\ db[i].status = "stopped"
                 /\ db[i].stoppedAt = "ts"
            ELSE i \notin signalled

\* C9: an allocate() during which no available port passes the bind probe
\* returns null and leaves available and allocated as they are, and the
\* start() that called it throws before it spawns a process or creates an
\* in-memory or durable record.
C9_ExhaustedReturnsNone ==
    [][\A i \in Ids :
         /\ exh'[i] = "yes" =>
               /\ pc'[i] \in {"probeError", "throwNoPorts"}
               /\ i \notin DOMAIN instances'
               /\ i \notin DOMAIN db'
               /\ proc'[i] = "none"
         /\ (exh[i] = "yes" /\ (pc'[i] # pc[i] \/ port'[i] # port[i])) =>
               /\ available' = available
               /\ allocated' = allocated]_vars

C9_Witness ==
    \E i \in Ids :
        /\ exh[i] = "yes"
        /\ pc[i] = "throwNoPorts"
        /\ available # <<>>
        /\ i \notin DOMAIN instances

\* C10: release(p) puts p back among the ports allocate() scans, and
\* allocate() returns the first port, in the iteration order of available,
\* whose probe passes: it returns null only when every available port has
\* failed its probe, and a port only when every port before it has.
C10_ReleasedPortEligible ==
    [][\A i \in Ids :
         /\ (proc[i] = "exited" /\ proc'[i] = "reaped") =>
               /\ instances[i].port \in Range(available')
               /\ instances[i].port \notin allocated'
         /\ (pc[i] # "throwNoPorts" /\ pc'[i] = "throwNoPorts") =>
               Range(available) \subseteq
                   (failed[i] \cup IF pc[i] = "probeError" THEN {port[i]} ELSE {})
         /\ (pc[i] = "probeOk" /\ pc'[i] # "probeOk") =>
               /\ port[i] \in allocated'
               /\ instances'[i].port = port[i]
               /\ LET n == IF port[i] \in Range(available)
                           THEN it[i] - 1 ELSE it[i] IN
                  \A k \in 1..n : available[k] \in failed[i]]_vars

C10_Witness ==
    \E i \in reused :
        /\ i \in DOMAIN instances
        /\ instances[i].port \in allocated
        /\ instances[i].port \in released
        /\ \A q \in Range(available) : Bound(q)

\* C11: stop(id) for an id the in-memory map does not have, the id of a
\* record orphaned by reconciliation included, throws not-found, sends no
\* signal, and changes no in-memory instance and no durable record.
C11_StopUnknownNotFound ==
    [][\A id \in Ids \cup OldIds \cup {0} :
         (/\ id \notin DOMAIN instances
          /\ \/ id \in notFound' \ notFound
             \/ id \in stopCalled' \ stopCalled) =>
            /\ id \in notFound'
            /\ UNCHANGED <<instances, db, signalled, pidSignals, proc>>]_vars

C11_Witness ==
    \E id \in notFound :
        /\ id \in RunningAtBoot
        /\ db[id].status = "orphaned"
        /\ id \notin signalled
        /\ id \notin stopCalled

\* C12: a failure to spawn the node process fails only that start() call:
\* the supervisor process does not crash.
C12_SpawnFailureContained ==
    \A i \in Ids : proc[i] = "spawnFailed" => phase # "crashed"

\* a capture step, a revert step: `last` describes the call just made
CaptureStep == toolBudget' < toolBudget /\ last'.tool = "createSnapshot"

RevertStep == toolBudget' < toolBudget /\ last'.tool = "revertSnapshot"

\* the names the registry has a snapshot registered under
RegisteredNames(m) == {k \in DOMAIN m : m[k].name = k}

\* C13: a capture with a name that is already registered fails with the
\* duplicate-name error and leaves every entry of the registry as it was;
\* a capture with a name not yet registered succeeds and is recorded under
\* both its token and its name.
C13_DuplicateNameRejected ==
    [][(CaptureStep /\ last'.outcome \in {"ok", "duplicateName"}) =>
         LET n == last'.arg
             t == last'.token
         IN
         /\ n \in RegisteredNames(snapshots) =>
               /\ last'.outcome = "duplicateName"
               /\ snapshots' = snapshots
         /\ (n # "" /\ n \notin RegisteredNames(snapshots)) =>
               /\ last'.outcome = "ok"
               /\ {n, t} \subseteq DOMAIN snapshots'
               /\ snapshots'[n] = SnapshotRecord(t, n, last'.rpc)
               /\ snapshots'[t] = SnapshotRecord(t, n, last'.rpc)]_vars

\* C14: every snapshot captured with name n and token t is found by n and
\* by t, both lookups give the same record, and that record has token t: a
\* registered name is never given to another token.
C14_NameAndTokenResolve ==
    \A c \in captured :
        /\ {c.name, c.snapshotId} \subseteq DOMAIN snapshots
        /\ snapshots[c.name] = snapshots[c.snapshotId]
        /\ snapshots[c.name].snapshotId = c.snapshotId

\* C15: a revert of a registered snapshot always goes on to the node's
\* revert primitive and never fails on the registry, and it gives the
\* possibly-invalidated warning exactly when an earlier revert of that
\* token got an answer from the node: on a second revert, not on a first.
C15_SecondRevertWarns ==
    [][(RevertStep /\ Resolve(snapshots, last'.arg) \in DOMAIN snapshots) =>
         /\ last'.prim
         /\ last'.outcome # "notFound"
         /\ last'.warned <=> (Resolve(snapshots, last'.arg) \in answered)]_vars

C15_Witness ==
    /\ last.tool = "revertSnapshot"
    /\ last.arg = "clean"
    /\ last.token = "0x0"
    /\ last.warned
    /\ last.prim
    /\ last.outcome = "true"

\* C16: a revert with an id or name that resolves to no registered snapshot
\* fails with not-found, does not invoke the node's revert primitive, and
\* leaves the registry and the consumed set as they were.
C16_RevertUnknownNotFound ==
    [][(RevertStep /\ Resolve(snapshots, last'.arg) \notin DOMAIN snapshots) =>
         /\ last'.outcome = "notFound"
         /\ ~last'.prim
         /\ UNCHANGED <<snapshots, consumedSnapshots>>]_vars

C16_Witness ==
    /\ last.tool = "revertSnapshot"
    /\ last.outcome = "notFound"
    /\ last.arg = "clean"
    /\ "0x0" \in DOMAIN snapshots
    /\ consumedSnapshots = {"0x0"}

\* C17: a revert marks the token consumed when the node's revert primitive
\* succeeded, and does not mark it when the primitive threw on both method
\* names or answered false.
C17_ConsumedOnSuccessOnly ==
    [][(RevertStep /\ last'.prim) =>
         /\ last'.outcome = "true" => last'.token \in consumedSnapshots'
         /\ last'.outcome \in {"false", "rpcError"} =>
               (last'.token \in consumedSnapshots'
                   <=> last'.token \in consumedSnapshots)]_vars

\* an impersonate step: a start or a stop by the impersonate tool
ImpersonateStep ==
    /\ toolBudget' < toolBudget
    /\ last'.tool \in {"impersonate", "stopImpersonating"}

\* C18: a start or a stop of impersonation on one endpoint never changes
\* whether the tracker records an address as active on another endpoint.
C18_TrackedPerInstance ==
    [][ImpersonateStep =>
         \A r \in Rpcs \ {last'.rpc}, a \in AddressOptions :
             TrackerHas(impersonatedAddresses', r, a)
                 <=> TrackerHas(impersonatedAddresses, r, a)]_vars

\* C19 as claimed: a start followed by a stop of the same address, in any
\* letter case, leaves the active set as it was before the start; a stop of
\* an address that is not in the set succeeds and leaves the set as it was.
C19_Original ==
    [][/\ startStop'.stopped # "" => impersonatedAddresses' = startStop'.before
       /\ (/\ ImpersonateStep
           /\ last'.tool = "stopImpersonating"
           /\ last'.outcome \notin {"notAnvil", "rpcError"}
           /\ ~TrackerHas(impersonatedAddresses, last'.rpc, last'.arg)) =>
              /\ last'.outcome = "ok"
              /\ impersonatedAddresses' = impersonatedAddresses]_vars

\* C19 as amended: a start followed by a stop of the same address, in any
\* letter case, leaves the active set as it was before the start without
\* that address; a stop of an address that is not in the set succeeds and
\* leaves the set as it was.
C19_Amended ==
    [][/\ startStop'.stopped # "" =>
             impersonatedAddresses' =
                 startStop'.before \ {ToLowerCase(startStop'.started)}
       /\ (/\ ImpersonateStep
           /\ last'.tool = "stopImpersonating"
           /\ last'.outcome \notin {"notAnvil", "rpcError"}
           /\ ~TrackerHas(impersonatedAddresses, last'.rpc, last'.arg)) =>
              /\ last'.outcome = "ok"
              /\ impersonatedAddresses' = impersonatedAddresses]_vars

C19_Witness ==
    /\ startStop.started = "0xab"
    /\ startStop.stopped = "0xAB"
    /\ startStop.before = {"0xcd"}
    /\ impersonatedAddresses = {"0xcd"}

\* C20: an impersonation started with the impersonate tool stays active on
\* the node until the impersonate tool stops it; no other tool call ends it.
C20_ImpersonationPersists ==
    \A r \in Rpcs : byTool[r] \subseteq nodeImp[r]

\* C22: start() gives its caller no result while the instance is starting:
\* when it returns the instance is running at that moment, and a call that
\* ends in any other way ends with an error thrown.
C22_ReturnsOnlyRunning ==
    [][\A i \in Ids :
         /\ (pc[i] # "returned" /\ pc'[i] = "returned") =>
               /\ pc[i] = "polling"
               /\ i \in DOMAIN instances'
               /\ instances'[i].status = "running"
         /\ (pc[i] = "polling" /\ pc'[i] # "polling") =>
               pc'[i] \in {"returned", "throwTimeout"}]_vars

C22_Witness ==
    \E i \in Ids :
        /\ pc[i] = "returned"
        /\ i \in stopCalled
        /\ instances[i].status = "running"

\* C23: when the allocator gives a start() a port that was released before
\* and that a stopped record of the store still has, the new record is
\* saved: the store takes a second record with that port.
C23_SecondRecordForPort ==
    [][\A i \in Ids :
         (/\ pc[i] = "probeOk"
          /\ pc'[i] # "probeOk"
          /\ port[i] \in released
          /\ \E r \in DOMAIN db : db[r].port = port[i] /\ db[r].status = "stopped") =>
            /\ pc'[i] = "polling"
            /\ i \in DOMAIN db'
            /\ db'[i].port = port[i]]_vars

\* C24: the durable record follows the in-memory status: an instance that
\* start() has brought to running has a durable record with status running,
\* and once initialize() has run no record of an earlier run is left
\* starting or running.
C24_StoreMirrorsStatus ==
    /\ \A i \in probeOk :
          instances[i].status = "running" =>
              i \in DOMAIN db /\ db[i].status = "running"
    /\ phase # "boot" =>
          \A r \in DOMAIN db0 : db[r].status \notin {"starting", "running"}

\* C25: stopped is terminal: an in-memory instance that is stopped stays
\* stopped whatever comes later, a successful probe answer and a late
\* "Listening on" chunk included.
C25_StoppedIsTerminal ==
    [][\A i \in DOMAIN instances :
         instances[i].status = "stopped" => instances'[i].status = "stopped"]_vars

\* C26: available and allocated are disjoint, together they are exactly the
\* configured range, and allocate() returns no port outside the range.
C26_AllocatorPartitionsRange ==
    /\ Range(available) \cap allocated = {}
    /\ Range(available) \cup allocated = Ports
    /\ outstanding \subseteq Ports

\* C27: a capture that succeeds changes no entry the registry already has;
\* when the node issues a token equal to a registered name, that name still
\* resolves to the snapshot it was registered for.
C27_CaptureOverwritesNothing ==
    [][(CaptureStep /\ last'.outcome = "ok") =>
         \A k \in DOMAIN snapshots :
             k \in DOMAIN snapshots' /\ snapshots'[k] = snapshots[k]]_vars

\* the tokens the node at endpoint r has issued
IssuedBy(r) == {NodeToken(k) : k \in 0..(nodeSnaps[r] - 1)}

\* C28: a capture or a revert on one endpoint changes neither the record a
\* token of another endpoint's node resolves to nor whether that token is
\* marked consumed, also when both nodes issue the same token value.
C28_InstancesDoNotInterfere ==
    [][(CaptureStep \/ RevertStep) =>
         \A r \in Rpcs \ {last'.rpc} :
             \A t \in IssuedBy(r) \cap DOMAIN snapshots :
                 /\ t \in DOMAIN snapshots'
                 /\ snapshots'[t] = snapshots[t]
                 /\ t \in consumedSnapshots' <=> t \in consumedSnapshots]_vars

\* C29: an impersonate call that ends with an error leaves the tracker's
\* active set as it was before the call, also when the balance query fails
\* after the node's impersonation primitive has succeeded.
C29_FailedCallChangesNothing ==
    [][(ImpersonateStep /\ last'.outcome # "ok") =>
         impersonatedAddresses' = impersonatedAddresses]_vars

\* C30: every token a node issues during a capture ends up in the registry:
\* a capture that fails with the duplicate-name error has not invoked the
\* node's snapshot primitive.
C30_NoUnrecordedNodeSnapshot ==
    [][CaptureStep =>
         /\ last'.outcome = "duplicateName" =>
               /\ ~last'.prim
               /\ nodeSnaps' = nodeSnaps
         /\ \A r \in Rpcs :
               nodeSnaps'[r] # nodeSnaps[r] =>
                   /\ last'.token \in DOMAIN snapshots'
                   /\ snapshots'[last'.token].snapshotId = last'.token]_vars

\* a string has a 0x-prefixed run of 64 hex digits
HasKey(s) == \E k \in 1..Len(s) : MatchAt(s, k)

\* C21: every chunk of process output, of stdout and of stderr, is logged
\* with each 0x-prefixed 64-hex-digit substring redacted: no logged line
\* has such a substring.
C21_NoKeyInLogs == \A line \in sink : ~HasKey(line)

====
